---- MODULE Spec2Model ----
(***************************************************************************)
(* A model of the segregated-bin allocator of src/src/mymalloc.c           *)
(* (my_malloc / my_free) and of its driver src/unnamed/part_000 (test1,    *)
(* main).                                                                  *)
(*                                                                         *)
(* Memory is modelled as the partial function `blocks' from the address of *)
(* every block header that currently exists to the six header fields.     *)
(* Addresses are byte addresses, sizes are byte counts.  The allocator     *)
(* state is the record m = [blocks, bins, heap_tail, brk]; every C         *)
(* function is an operator from such a record to such a record (and a      *)
(* returned pointer, where the C function returns one), so that a public   *)
(* operation is the composition of the calls it makes.                     *)
(***************************************************************************)
EXTENDS Integers, Sequences, FiniteSets, TLC

(***************************************************************************)
(* Program constants.                                                      *)
(***************************************************************************)
NULL == 0

MINIMUM_ALLOCATION == 16

SIZE_MULTIPLE == 8

BIGGEST_BINNED_SIZE == 512

NUM_BINS == 2 + ((BIGGEST_BINNED_SIZE - MINIMUM_ALLOCATION) \div SIZE_MULTIPLE)

OVERFLOW_BIN == NUM_BINS - 1

\* offsetof(BlockHeader, prev_free): two 4-byte integers and two pointers,
\* 24 bytes where pointers are 8 bytes wide (LP64).
BLOCK_HEADER_SIZE == 24

MINIMUM_BLOCK_SIZE == MINIMUM_ALLOCATION + BLOCK_HEADER_SIZE

\* The program break before the first allocation (heap_at_start in main).
HeapStart == 4096

(***************************************************************************)
(* Bounds of the model.                                                    *)
(***************************************************************************)
\* Width in bits of the model's `unsigned int' (32 in the build).
UINT_BITS == 13

\* The arbitrary client holds at most MaxLive pointers at a time.
MaxLive == 6

\* The arbitrary client never lets the heap grow beyond HeapStart plus the
\* cap of its profile.
MaxHeapSmall == 400

MaxHeapMixed == 800

MaxHeapExact == 1600

MaxHeapLarge == 2300

UINT_MOD == 2 ^ UINT_BITS

\* Conversion of an integer to unsigned int.
ToUInt(x) == x % UINT_MOD

\* The arbitrary client follows one of these profiles: the request sizes it
\* draws from and the cap it puts on the heap.
Profiles ==
  << [sizes |-> {0, 24, 72}, cap |-> MaxHeapSmall],
     [sizes |-> {0, 1, 520}, cap |-> MaxHeapMixed],
     [sizes |-> {0, 504, 508, 512}, cap |-> MaxHeapExact],
     [sizes |-> {0, 520, 544}, cap |-> MaxHeapLarge] >>

ReqSizes == UNION {Profiles[i].sizes : i \in DOMAIN Profiles}

\* What the arbitrary client may have left in the first two payload words
\* of a block it releases (they are the block's prev_free / next_free).
PayloadWords == {NULL, HeapStart}

VARIABLES blocks, bins, heap_tail, brk, live, last, scen, scen6, client, profile, pc,
          ptrs

\* The allocator's own state.
heap == <<blocks, bins, heap_tail, brk>>

vars == <<blocks, bins, heap_tail, brk, live, last, scen, scen6, client, profile, pc,
          ptrs>>

\* The allocator state as one value.
Machine == [blocks |-> blocks, bins |-> bins, heap_tail |-> heap_tail, brk |-> brk]

(***************************************************************************)
(* Math helpers.                                                           *)
(***************************************************************************)
ptr_add_bytes(ptr, byte_offs) == ptr + byte_offs

block_to_data(block) == ptr_add_bytes(block, BLOCK_HEADER_SIZE)

data_to_block(data) == ptr_add_bytes(data, -BLOCK_HEADER_SIZE)

data_size_to_block_size(data_size) == ToUInt(data_size + BLOCK_HEADER_SIZE)

\* x & ~(SIZE_MULTIPLE - 1)
MaskLow(x) == x - (x % SIZE_MULTIPLE)

\* Faulty variant: the clamp to MINIMUM_ALLOCATION is missing.
round_up_size_no_min(data_size) ==
  IF data_size = 0 THEN 0
  ELSE MaskLow(ToUInt(data_size + (SIZE_MULTIPLE - 1)))

round_up_size(data_size) ==
  IF data_size = 0 THEN 0
  ELSE IF data_size < MINIMUM_ALLOCATION THEN MINIMUM_ALLOCATION
  ELSE MaskLow(ToUInt(data_size + (SIZE_MULTIPLE - 1)))

size_to_bin(data_size) ==
  LET bin == ToUInt(round_up_size(data_size) - MINIMUM_ALLOCATION) \div SIZE_MULTIPLE
  IN  IF bin > OVERFLOW_BIN THEN OVERFLOW_BIN ELSE bin

(***************************************************************************)
(* Header access.  A store through a pointer that is no block header       *)
(* (user payload, unmapped memory) leaves every header unchanged.          *)
(***************************************************************************)
Fld(m, b, f) == m.blocks[b][f]

Set(m, b, f, v) ==
  IF b \in DOMAIN m.blocks
  THEN [m EXCEPT !.blocks = [@ EXCEPT ![b] = [@ EXCEPT ![f] = v]]]
  ELSE m

SetBin(m, i, v) == [m EXCEPT !.bins = [@ EXCEPT ![i] = v]]

SetTail(m, v) == [m EXCEPT !.heap_tail = v]

\* The blocks at the addresses in `dead' cease to exist.
Drop(m, dead) ==
  [m EXCEPT !.blocks = [a \in (DOMAIN m.blocks) \ dead |-> m.blocks[a]]]

(***************************************************************************)
(* Physical list.                                                          *)
(***************************************************************************)
link_onto_end(m, new_block) ==
  IF m.heap_tail = NULL
  THEN SetTail(Set(Set(m, new_block, "prev_phys", NULL),
                   new_block, "next_phys", NULL), new_block)
  ELSE LET old_tail == m.heap_tail
           m1 == Set(m, old_tail, "next_phys", new_block)
           m2 == Set(m1, new_block, "next_phys", NULL)
           m3 == Set(m2, new_block, "prev_phys", old_tail)
       IN  SetTail(m3, new_block)

\* Faulty variant: the new tail keeps its next_phys.
unlink_block_keep_next(m) ==
  IF m.heap_tail = NULL THEN m
  ELSE IF Fld(m, m.heap_tail, "prev_phys") = NULL THEN SetTail(m, NULL)
  ELSE SetTail(m, Fld(m, m.heap_tail, "prev_phys"))

unlink_block(m) ==
  IF m.heap_tail = NULL THEN m
  ELSE IF Fld(m, m.heap_tail, "prev_phys") = NULL THEN SetTail(m, NULL)
  ELSE LET new_tail == Fld(m, m.heap_tail, "prev_phys")
       IN  SetTail(Set(m, new_tail, "next_phys", NULL), new_tail)

(***************************************************************************)
(* Bins.                                                                   *)
(***************************************************************************)
\* Faulty variant: the old head is not pointed back at the new one.
insert_into_bin_no_backlink(m, block) ==
  LET bin_index == size_to_bin(Fld(m, block, "size"))
  IN  IF m.bins[bin_index] = NULL
      THEN SetBin(Set(Set(m, block, "prev_free", NULL),
                      block, "next_free", NULL), bin_index, block)
      ELSE LET old_head == m.bins[bin_index]
               m2 == Set(m, block, "next_free", old_head)
               m3 == Set(m2, block, "prev_free", NULL)
           IN  SetBin(m3, bin_index, block)

insert_into_bin(m, block) ==
  LET bin_index == size_to_bin(Fld(m, block, "size"))
  IN  IF m.bins[bin_index] = NULL
      THEN SetBin(Set(Set(m, block, "prev_free", NULL),
                      block, "next_free", NULL), bin_index, block)
      ELSE LET old_head == m.bins[bin_index]
               m1 == Set(m, old_head, "prev_free", block)
               m2 == Set(m1, block, "next_free", old_head)
               m3 == Set(m2, block, "prev_free", NULL)
           IN  SetBin(m3, bin_index, block)

\* Faulty variant: the last block of a list is left linked from its
\* predecessor.
remove_block_keep_end(m, block) ==
  LET bin_index == size_to_bin(Fld(m, block, "size"))
      pf == Fld(m, block, "prev_free")
      nf == Fld(m, block, "next_free")
  IN  IF pf = NULL /\ nf = NULL THEN SetBin(m, bin_index, NULL)
      ELSE IF pf = NULL /\ nf # NULL
      THEN Set(SetBin(m, bin_index, nf), nf, "prev_free", NULL)
      ELSE IF pf # NULL /\ nf = NULL
      THEN m
      ELSE Set(Set(m, pf, "next_free", nf), nf, "prev_free", pf)

\* Faulty variant: the links of the removed block are cleared as well.
remove_block_clear_links(m, block) ==
  LET bin_index == size_to_bin(Fld(m, block, "size"))
      pf == Fld(m, block, "prev_free")
      nf == Fld(m, block, "next_free")
      m1 == IF pf = NULL /\ nf = NULL THEN SetBin(m, bin_index, NULL)
            ELSE IF pf = NULL /\ nf # NULL
            THEN Set(SetBin(m, bin_index, nf), nf, "prev_free", NULL)
            ELSE IF pf # NULL /\ nf = NULL
            THEN Set(m, pf, "next_free", NULL)
            ELSE Set(Set(m, pf, "next_free", nf), nf, "prev_free", pf)
  IN  Set(Set(m1, block, "prev_free", NULL), block, "next_free", NULL)

remove_block(m, block) ==
  LET bin_index == size_to_bin(Fld(m, block, "size"))
      pf == Fld(m, block, "prev_free")
      nf == Fld(m, block, "next_free")
  IN  IF pf = NULL /\ nf = NULL THEN SetBin(m, bin_index, NULL)
      ELSE IF pf = NULL /\ nf # NULL
      THEN Set(SetBin(m, bin_index, nf), nf, "prev_free", NULL)
      ELSE IF pf # NULL /\ nf = NULL
      THEN Set(m, pf, "next_free", NULL)
      ELSE Set(Set(m, pf, "next_free", nf), nf, "prev_free", pf)

(***************************************************************************)
(* Coalescing.  The result is [m, ret]: the state coalesce leaves and the  *)
(* block it returns.  A block absorbed by the merge no longer exists.      *)
(***************************************************************************)
\* Faulty variant: the merged block is not marked free.
Merge_keep_use(m, coalesced_block, new_size, new_next) ==
  LET m1 == Set(m, coalesced_block, "size", ToUInt(new_size))
      m3 == Set(m1, coalesced_block, "next_phys", new_next)
  IN  IF new_next = NULL THEN SetTail(m3, coalesced_block)
      ELSE Set(m3, new_next, "prev_phys", coalesced_block)

\* coalesced_block takes new_size, is marked free and is linked to new_next,
\* which is back-patched, or heap_tail is updated when there is none.
Merge(m, coalesced_block, new_size, new_next) ==
  LET m1 == Set(m, coalesced_block, "size", ToUInt(new_size))
      m2 == Set(m1, coalesced_block, "in_use", 0)
      m3 == Set(m2, coalesced_block, "next_phys", new_next)
  IN  IF new_next = NULL THEN SetTail(m3, coalesced_block)
      ELSE Set(m3, new_next, "prev_phys", coalesced_block)

\* Faulty variant: the predecessor is resized before it is taken out of its
\* bin.
CoalescePrev_resize_first(m, block) ==
  LET p == Fld(m, block, "prev_phys")
      new_size == Fld(m, p, "size") + (Fld(m, block, "size") + BLOCK_HEADER_SIZE)
      m1 == Merge(m, p, new_size, Fld(m, block, "next_phys"))
  IN  [m |-> Drop(remove_block(m1, p), {block}), ret |-> p]

\* Only the previous neighbour is free; new_next is the block's own
\* successor, or NULL when the block is the tail (lines 235-248, 272-284).
CoalescePrev(m, block) ==
  LET p == Fld(m, block, "prev_phys")
      m1 == remove_block(m, p)
      new_size == Fld(m1, p, "size") + (Fld(m1, block, "size") + BLOCK_HEADER_SIZE)
  IN  [m |-> Drop(Merge(m1, p, new_size, Fld(m1, block, "next_phys")), {block}),
       ret |-> p]

\* Only the next neighbour is free (lines 250-267, 288-305).
CoalesceNext(m, block) ==
  LET n == Fld(m, block, "next_phys")
      m1 == remove_block(m, n)
      new_size == Fld(m1, n, "size") + (Fld(m1, block, "size") + BLOCK_HEADER_SIZE)
  IN  [m |-> Drop(Merge(m1, block, new_size, Fld(m1, n, "next_phys")), {n}),
       ret |-> block]

\* Faulty variant: with both neighbours free only the previous one is
\* merged.
CoalesceBoth_prev_only(m, block) == CoalescePrev(m, block)

\* Both neighbours are free (lines 215-233).
CoalesceBoth(m, block) ==
  LET p == Fld(m, block, "prev_phys")
      n == Fld(m, block, "next_phys")
      m1 == remove_block(remove_block(m, n), p)
      new_size == Fld(m1, p, "size") + (Fld(m1, block, "size") + BLOCK_HEADER_SIZE)
                    + (Fld(m1, n, "size") + BLOCK_HEADER_SIZE)
  IN  [m |-> Drop(Merge(m1, p, new_size, Fld(m1, n, "next_phys")), {block, n}),
       ret |-> p]

\* Faulty variant: a tail block is not merged into its free predecessor.
coalesce_keep_tail(m, block) ==
  LET p == Fld(m, block, "prev_phys")
      n == Fld(m, block, "next_phys")
      none == [m |-> m, ret |-> block]
  IN  IF p # NULL /\ n # NULL
      THEN IF Fld(m, p, "in_use") = 0 /\ Fld(m, n, "in_use") = 0
           THEN CoalesceBoth(m, block)
           ELSE IF Fld(m, p, "in_use") = 0 /\ Fld(m, n, "in_use") = 1
           THEN CoalescePrev(m, block)
           ELSE IF Fld(m, p, "in_use") = 1 /\ Fld(m, n, "in_use") = 0
           THEN CoalesceNext(m, block)
           ELSE none
      ELSE IF p = NULL /\ n # NULL
      THEN IF Fld(m, n, "in_use") = 0 THEN CoalesceNext(m, block) ELSE none
      ELSE none

\* Faulty variant: the lowest block is merged with its successor without a
\* look at the successor's in_use.
coalesce_no_use_test(m, block) ==
  LET p == Fld(m, block, "prev_phys")
      n == Fld(m, block, "next_phys")
      none == [m |-> m, ret |-> block]
  IN  IF p # NULL /\ n # NULL
      THEN IF Fld(m, p, "in_use") = 0 /\ Fld(m, n, "in_use") = 0
           THEN CoalesceBoth(m, block)
           ELSE IF Fld(m, p, "in_use") = 0 /\ Fld(m, n, "in_use") = 1
           THEN CoalescePrev(m, block)
           ELSE IF Fld(m, p, "in_use") = 1 /\ Fld(m, n, "in_use") = 0
           THEN CoalesceNext(m, block)
           ELSE none
      ELSE IF p # NULL /\ n = NULL
      THEN IF Fld(m, p, "in_use") = 0 THEN CoalescePrev(m, block) ELSE none
      ELSE IF p = NULL /\ n # NULL
      THEN CoalesceNext(m, block)
      ELSE none

coalesce(m, block) ==
  LET p == Fld(m, block, "prev_phys")
      n == Fld(m, block, "next_phys")
      none == [m |-> m, ret |-> block]
  IN  IF p # NULL /\ n # NULL
      THEN IF Fld(m, p, "in_use") = 0 /\ Fld(m, n, "in_use") = 0
           THEN CoalesceBoth(m, block)
           ELSE IF Fld(m, p, "in_use") = 0 /\ Fld(m, n, "in_use") = 1
           THEN CoalescePrev(m, block)
           ELSE IF Fld(m, p, "in_use") = 1 /\ Fld(m, n, "in_use") = 0
           THEN CoalesceNext(m, block)
           ELSE none
      ELSE IF p # NULL /\ n = NULL
      THEN IF Fld(m, p, "in_use") = 0 THEN CoalescePrev(m, block) ELSE none
      ELSE IF p = NULL /\ n # NULL
      THEN IF Fld(m, n, "in_use") = 0 THEN CoalesceNext(m, block) ELSE none
      ELSE none

(***************************************************************************)
(* Splitting.  The residual header is written into what was payload, so a  *)
(* block begins to exist at empty_portion.                                 *)
(***************************************************************************)
NewHeader == [size |-> 0, in_use |-> 0, prev_phys |-> NULL, next_phys |-> NULL,
              prev_free |-> NULL, next_free |-> NULL]

\* A header begins to exist at address a (all six fields are yet to be set).
Create(m, a) ==
  [m EXCEPT !.blocks = [x \in (DOMAIN m.blocks) \cup {a} |->
                          IF x = a THEN NewHeader ELSE m.blocks[x]]]

\* Faulty variant: the allocated portion keeps the size of the unsplit
\* block.
split_block_keep_size(m, block, allocation_size) ==
  LET old_block_size == Fld(m, block, "size")
      m1 == remove_block(m, block)
      allocated_portion == block
      empty_portion == ptr_add_bytes(block, allocation_size + BLOCK_HEADER_SIZE)
      next_block == Fld(m1, block, "next_phys")
      m2 == Set(m1, allocated_portion, "in_use", 1)
      m4 == Set(Create(m2, empty_portion), empty_portion, "in_use", 0)
      m5 == Set(m4, empty_portion, "size",
                ToUInt((old_block_size - allocation_size) - BLOCK_HEADER_SIZE))
      m6 == Set(m5, allocated_portion, "next_phys", empty_portion)
      m7 == Set(m6, empty_portion, "prev_phys", allocated_portion)
      m8 == Set(m7, empty_portion, "next_phys", next_block)
      m9 == IF next_block # NULL THEN Set(m8, next_block, "prev_phys", empty_portion)
            ELSE SetTail(m8, empty_portion)
  IN  [m |-> insert_into_bin(m9, empty_portion), ret |-> allocated_portion]

\* Faulty variant: the successor's prev_phys is not re-pointed to the
\* residual.
split_block_no_backpatch(m, block, allocation_size) ==
  LET old_block_size == Fld(m, block, "size")
      m1 == remove_block(m, block)
      allocated_portion == block
      empty_portion == ptr_add_bytes(block, allocation_size + BLOCK_HEADER_SIZE)
      next_block == Fld(m1, block, "next_phys")
      m2 == Set(m1, allocated_portion, "in_use", 1)
      m3 == Set(m2, allocated_portion, "size", allocation_size)
      m4 == Set(Create(m3, empty_portion), empty_portion, "in_use", 0)
      m5 == Set(m4, empty_portion, "size",
                ToUInt((old_block_size - allocation_size) - BLOCK_HEADER_SIZE))
      m6 == Set(m5, allocated_portion, "next_phys", empty_portion)
      m7 == Set(m6, empty_portion, "prev_phys", allocated_portion)
      m8 == Set(m7, empty_portion, "next_phys", next_block)
  IN  [m |-> insert_into_bin(m8, empty_portion), ret |-> allocated_portion]

split_block(m, block, allocation_size) ==
  LET old_block_size == Fld(m, block, "size")
      m1 == remove_block(m, block)
      allocated_portion == block
      empty_portion == ptr_add_bytes(block, allocation_size + BLOCK_HEADER_SIZE)
      next_block == Fld(m1, block, "next_phys")
      m2 == Set(m1, allocated_portion, "in_use", 1)
      m3 == Set(m2, allocated_portion, "size", allocation_size)
      m4 == Set(Create(m3, empty_portion), empty_portion, "in_use", 0)
      m5 == Set(m4, empty_portion, "size",
                ToUInt((old_block_size - allocation_size) - BLOCK_HEADER_SIZE))
      m6 == Set(m5, allocated_portion, "next_phys", empty_portion)
      m7 == Set(m6, empty_portion, "prev_phys", allocated_portion)
      m8 == Set(m7, empty_portion, "next_phys", next_block)
      m9 == IF next_block # NULL THEN Set(m8, next_block, "prev_phys", empty_portion)
            ELSE SetTail(m8, empty_portion)
  IN  [m |-> insert_into_bin(m9, empty_portion), ret |-> allocated_portion]

(***************************************************************************)
(* The program break.                                                      *)
(***************************************************************************)
\* sbrk(increment): the break rises; the old break is the caller's pointer.
sbrk(m, increment) == [m EXCEPT !.brk = @ + increment]

\* Faulty variant: the break is lowered to the payload of the block at addr,
\* so that the room of its header stays mapped.
brk_to_keep_header(m, addr) ==
  Drop([m EXCEPT !.brk = addr + BLOCK_HEADER_SIZE], {a \in DOMAIN m.blocks : a >= addr})

\* brk(addr): the break is set to addr; what lies at or above it is unmapped.
brk_to(m, addr) ==
  Drop([m EXCEPT !.brk = addr], {a \in DOMAIN m.blocks : a >= addr})

(***************************************************************************)
(* my_malloc.  The result is [m, ret] with ret the block chosen (NULL when *)
(* the step found none).                                                   *)
(***************************************************************************)
\* Faulty variant: the search starts where the residual has room for a
\* header but not yet for a minimum payload.
ScanStart_header_only(size) == size_to_bin(ToUInt(size + BLOCK_HEADER_SIZE))

\* Line 370: the index at which the split search starts.
ScanStart(size) == size_to_bin(ToUInt(size + MINIMUM_BLOCK_SIZE))

\* The for loop of lines 370-383 from `index' on: the first non-empty small
\* bin whose head leaves a residual of at least a minimum block.
RECURSIVE SmallBinScan(_, _, _)
SmallBinScan(m, size, index) ==
  IF ~(index < OVERFLOW_BIN) THEN NULL
  ELSE IF m.bins[index] # NULL
  THEN LET block_to_split == m.bins[index]
       IN  IF ToUInt(Fld(m, block_to_split, "size") - size) < MINIMUM_BLOCK_SIZE
           THEN SmallBinScan(m, size, index + 1)
           ELSE block_to_split
  ELSE SmallBinScan(m, size, index + 1)

\* Faulty variant: the split search looks at every small bin above the
\* request's own one and hands the first free block it finds over whole
\* when the residual would be too small to split.
SmallBinStep_whole_fit(m, size) ==
  LET bin_index == size_to_bin(size)
      current == m.bins[bin_index]
      larger == {i \in DOMAIN m.bins :
                   bin_index < i /\ i < OVERFLOW_BIN /\ m.bins[i] # NULL}
      found == m.bins[CHOOSE i \in larger : \A j \in larger : i <= j]
  IN  IF bin_index < OVERFLOW_BIN /\ current # NULL
      THEN [m |-> remove_block(Set(m, current, "in_use", 1), current), ret |-> current]
      ELSE IF bin_index < OVERFLOW_BIN /\ larger # {}
      THEN IF ToUInt(Fld(m, found, "size") - size) < MINIMUM_BLOCK_SIZE
           THEN [m |-> remove_block(Set(m, found, "in_use", 1), found), ret |-> found]
           ELSE split_block(remove_block(m, found), found, size)
      ELSE [m |-> m, ret |-> NULL]

\* Lines 361-388: exact fit in a small bin, else a split of a larger small
\* block.
SmallBinStep(m, size) ==
  LET bin_index == size_to_bin(size)
      current == m.bins[bin_index]
  IN  IF bin_index < OVERFLOW_BIN /\ current # NULL
      THEN [m |-> remove_block(Set(m, current, "in_use", 1), current), ret |-> current]
      ELSE IF bin_index < OVERFLOW_BIN /\ current = NULL
      THEN LET block_to_split ==
                 SmallBinScan(m, size, ScanStart(size))
           IN  IF block_to_split # NULL
               THEN split_block(remove_block(m, block_to_split), block_to_split, size)
               ELSE [m |-> m, ret |-> NULL]
      ELSE [m |-> m, ret |-> NULL]

\* The while loop of lines 395-412 from `current' on: first fit in the
\* overflow bin.
RECURSIVE FirstFit(_, _, _)
FirstFit(m, size, current) ==
  IF current = NULL THEN [m |-> m, ret |-> NULL]
  ELSE IF Fld(m, current, "size") >= size
  THEN IF ToUInt(Fld(m, current, "size") - size) >= MINIMUM_BLOCK_SIZE
       THEN split_block(m, current, size)
       ELSE [m |-> remove_block(Set(m, current, "in_use", 1), current), ret |-> current]
  ELSE FirstFit(m, size, Fld(m, current, "next_free"))

\* Faulty variant: the heap grows by the payload only, without room for the
\* header.
Grow_no_header(m, size) ==
  LET new_allocation == m.brk
      m1 == Create(sbrk(m, size), new_allocation)
      m2 == Set(m1, new_allocation, "size", size)
      m3 == Set(m2, new_allocation, "in_use", 1)
  IN  [m |-> link_onto_end(m3, new_allocation), ret |-> new_allocation]

\* Lines 416-421: a new block at the old break.
Grow(m, size) ==
  LET new_allocation == m.brk
      m1 == Create(sbrk(m, size + BLOCK_HEADER_SIZE), new_allocation)
      m2 == Set(m1, new_allocation, "size", size)
      m3 == Set(m2, new_allocation, "in_use", 1)
  IN  [m |-> link_onto_end(m3, new_allocation), ret |-> new_allocation]

\* Lines 390-413: the overflow bin is searched when the small bins gave
\* nothing.
OverflowStep(r, size) ==
  IF r.ret = NULL THEN FirstFit(r.m, size, r.m.bins[OVERFLOW_BIN]) ELSE r

\* Lines 415-421: the heap grows when no free block was found.
GrowStep(r, size) == IF r.ret = NULL THEN Grow(r.m, size) ELSE r

\* Line 423.
Result(r) == [m |-> r.m, ret |-> block_to_data(r.ret)]

\* Faulty variant: a request of 0 bytes is not turned away.
my_malloc_no_zero(m, n) ==
  Result(GrowStep(OverflowStep(SmallBinStep(m, round_up_size(n)),
                               round_up_size(n)),
                  round_up_size(n)))

my_malloc(m, n) ==
  IF n = 0 THEN [m |-> m, ret |-> NULL]
  ELSE Result(GrowStep(OverflowStep(SmallBinStep(m, round_up_size(n)),
                                    round_up_size(n)),
                       round_up_size(n)))

(***************************************************************************)
(* my_free.                                                                *)
(***************************************************************************)
\* Faulty variant: a block that ends up at the tail goes into a bin like
\* any other; the heap is never contracted.
my_free_no_contract(m, ptr) ==
  IF ptr = NULL THEN m
  ELSE LET c == coalesce(m, data_to_block(ptr))
           block_to_free == c.ret
       IN  insert_into_bin(Set(c.m, block_to_free, "in_use", 0), block_to_free)

my_free(m, ptr) ==
  IF ptr = NULL THEN m
  ELSE LET c == coalesce(m, data_to_block(ptr))
           block_to_free == c.ret
       IN  IF Fld(c.m, block_to_free, "next_phys") = NULL
           THEN brk_to(unlink_block(c.m), block_to_free)
           ELSE insert_into_bin(Set(c.m, block_to_free, "in_use", 0), block_to_free)

(***************************************************************************)
(* The clients.  `live' maps every pointer my_malloc returned and my_free  *)
(* has not yet been given to the size that was requested; `last' is the    *)
(* most recent public call with its argument and result.                   *)
(*                                                                         *)
(* The client is either test1 of the harness, whose position is pc and     *)
(* whose locals a..j are ptrs[1..10], or an arbitrary well-behaved caller  *)
(* (every non-null pointer it releases is live, it writes only payload),   *)
(* which follows the profile numbered `profile'.                           *)
(*                                                                         *)
(* `scen' follows the calls through the scenario "allocate 24 bytes on an  *)
(* empty heap, release them, record the break as B1, allocate 24 bytes     *)
(* again": step is the number of its calls made so far without any other   *)
(* call in between, ptr the pointer of its first call, B1 the break        *)
(* recorded after its release.                                             *)
(*                                                                         *)
(* `scen6' follows the calls through the scenario "allocate a 512-byte     *)
(* block, release it, allocate s bytes with s < 512 and 512 - s below the  *)
(* minimum block size" in the same way, on any heap: kept tells whether    *)
(* the release left the block on the physical list as a free block of 512  *)
(* bytes, nblocks is the number of blocks after the release.               *)
(***************************************************************************)
Test1Sizes == <<24, 2000, 56, 64, 200, 16, 64, 40, 800, 512>>

\* f, a, c, j, g, e, h, i, b, d
Test1FreeOrder == <<6, 1, 3, 10, 7, 5, 8, 9, 2, 4>>

Install(m) ==
  /\ blocks' = m.blocks
  /\ bins' = m.bins
  /\ heap_tail' = m.heap_tail
  /\ brk' = m.brk

\* live with pointer p added for request n (nothing is added for NULL).
Add(lv, p, n) ==
  IF p = NULL THEN lv
  ELSE [x \in (DOMAIN lv) \cup {p} |-> IF x = p THEN n ELSE lv[x]]

Remove(lv, p) == [x \in (DOMAIN lv) \ {p} |-> lv[x]]

EmptyHeap(m) == m.heap_tail = NULL /\ \A i \in DOMAIN m.bins : m.bins[i] = NULL

NoScenario == [step |-> 0, ptr |-> NULL, B1 |-> 0]

\* scen after the call op(arg) that took the allocator from m to m2 and
\* returned ret.
Follow(m, op, arg, ret, m2) ==
  IF op = "malloc" /\ arg = 24 /\ scen.step = 2
  THEN [step |-> 3, ptr |-> scen.ptr, B1 |-> scen.B1]
  ELSE IF op = "malloc" /\ arg = 24 /\ EmptyHeap(m)
  THEN [step |-> 1, ptr |-> ret, B1 |-> 0]
  ELSE IF op = "free" /\ scen.step = 1 /\ arg = scen.ptr
  THEN [step |-> 2, ptr |-> arg, B1 |-> m2.brk]
  ELSE NoScenario

NoScenario6 == [step |-> 0, ptr |-> NULL, B1 |-> 0, kept |-> FALSE, nblocks |-> 0]

\* The block of payload pointer ptr is a free block of 512 bytes in m.
FreeBiggest(m, ptr) ==
  /\ data_to_block(ptr) \in DOMAIN m.blocks
  /\ m.blocks[data_to_block(ptr)].in_use = 0
  /\ m.blocks[data_to_block(ptr)].size = BIGGEST_BINNED_SIZE

\* scen6 after the call op(arg) that took the allocator to m2 and returned
\* ret.
Follow6(op, arg, ret, m2) ==
  IF /\ op = "malloc" /\ scen6.step = 2
     /\ arg < BIGGEST_BINNED_SIZE
     /\ BIGGEST_BINNED_SIZE - arg < MINIMUM_BLOCK_SIZE
  THEN [scen6 EXCEPT !.step = 3]
  ELSE IF /\ op = "malloc" /\ ret # NULL
          /\ m2.blocks[data_to_block(ret)].size = BIGGEST_BINNED_SIZE
  THEN [step |-> 1, ptr |-> ret, B1 |-> 0, kept |-> FALSE, nblocks |-> 0]
  ELSE IF op = "free" /\ scen6.step = 1 /\ arg = scen6.ptr
  THEN [step |-> 2, ptr |-> arg, B1 |-> m2.brk, kept |-> FreeBiggest(m2, arg),
        nblocks |-> Cardinality(DOMAIN m2.blocks)]
  ELSE NoScenario6

Init ==
  /\ blocks = <<>>
  /\ bins = [i \in 0 .. (NUM_BINS - 1) |-> NULL]
  /\ heap_tail = NULL
  /\ brk = HeapStart
  /\ live = <<>>
  /\ last = [op |-> "none", arg |-> 0, ret |-> NULL]
  /\ scen = NoScenario
  /\ scen6 = NoScenario6
  /\ client \in {"any", "test1"}
  /\ profile \in IF client = "any" THEN DOMAIN Profiles ELSE {0}
  /\ pc = 0
  /\ ptrs = [i \in 1 .. 10 |-> NULL]

\* The payload at ptr passes to the arbitrary client.  Its first two words
\* overlay the block's prev_free / next_free; the model keeps no payload
\* contents, so they read as NULL until the release, where what the client
\* left in them is drawn from PayloadWords.
HandOver(m, ptr) ==
  IF ptr = NULL THEN m
  ELSE Set(Set(m, data_to_block(ptr), "prev_free", NULL),
           data_to_block(ptr), "next_free", NULL)

\* The arbitrary client calls my_malloc(n).
Malloc(n) ==
  /\ client = "any"
  /\ n \in Profiles[profile].sizes
  /\ n = 0 \/ Cardinality(DOMAIN live) < MaxLive
  /\ LET r == my_malloc(Machine, n)
     IN  /\ r.m.brk <= HeapStart + Profiles[profile].cap
         /\ Install(HandOver(r.m, r.ret))
         /\ live' = Add(live, r.ret, n)
         /\ last' = [op |-> "malloc", arg |-> n, ret |-> r.ret]
         /\ scen' = Follow(Machine, "malloc", n, r.ret, r.m)
         /\ scen6' = Follow6("malloc", n, r.ret, r.m)
  /\ UNCHANGED <<client, profile, pc, ptrs>>

\* The arbitrary client calls my_free(p) for a live pointer p, having
\* written w1, w2 to the first two words of the payload.
Free(p, w1, w2) ==
  /\ client = "any"
  /\ p \in DOMAIN live
  /\ LET b == data_to_block(p)
         m0 == Set(Set(Machine, b, "prev_free", w1), b, "next_free", w2)
     IN  /\ Install(my_free(m0, p))
         /\ scen' = Follow(Machine, "free", p, NULL, my_free(m0, p))
         /\ scen6' = Follow6("free", p, NULL, my_free(m0, p))
  /\ live' = Remove(live, p)
  /\ last' = [op |-> "free", arg |-> p, ret |-> NULL]
  /\ UNCHANGED <<client, profile, pc, ptrs>>

\* The arbitrary client calls my_free(NULL).
FreeNull ==
  /\ client = "any"
  /\ Install(my_free(Machine, NULL))
  /\ last' = [op |-> "free", arg |-> NULL, ret |-> NULL]
  /\ scen' = Follow(Machine, "free", NULL, NULL, my_free(Machine, NULL))
  /\ scen6' = Follow6("free", NULL, NULL, my_free(Machine, NULL))
  /\ UNCHANGED <<live, client, profile, pc, ptrs>>

\* test1, lines 12-21: the next allocation.
Test1Malloc ==
  /\ client = "test1"
  /\ pc < 10
  /\ LET n == Test1Sizes[pc + 1]
         r == my_malloc(Machine, n)
     IN  /\ Install(r.m)
         /\ live' = Add(live, r.ret, n)
         /\ ptrs' = [ptrs EXCEPT ![pc + 1] = r.ret]
         /\ last' = [op |-> "malloc", arg |-> n, ret |-> r.ret]
         /\ scen' = Follow(Machine, "malloc", n, r.ret, r.m)
         /\ scen6' = Follow6("malloc", n, r.ret, r.m)
  /\ pc' = pc + 1
  /\ UNCHANGED <<client, profile>>

\* test1, lines 25-34: the next release.
Test1Free ==
  /\ client = "test1"
  /\ pc >= 10 /\ pc < 20
  /\ LET p == ptrs[Test1FreeOrder[pc - 9]]
     IN  /\ Install(my_free(Machine, p))
         /\ live' = Remove(live, p)
         /\ last' = [op |-> "free", arg |-> p, ret |-> NULL]
         /\ scen' = Follow(Machine, "free", p, NULL, my_free(Machine, p))
         /\ scen6' = Follow6("free", p, NULL, my_free(Machine, p))
  /\ pc' = pc + 1
  /\ UNCHANGED <<client, profile, ptrs>>

Next ==
  \/ \E n \in ReqSizes : Malloc(n)
  \/ \E p \in DOMAIN live : \E w1, w2 \in PayloadWords : Free(p, w1, w2)
  \/ FreeNull
  \/ Test1Malloc
  \/ Test1Free

Spec == Init /\ [][Next]_vars

(***************************************************************************)
(* Reading a state of the allocator.                                       *)
(***************************************************************************)
\* The addresses followed from b through field f, for at most fuel steps;
\* the walk ends at NULL and at an address that holds no block header.
RECURSIVE Walk(_, _, _, _)
Walk(m, b, f, fuel) ==
  IF b = NULL \/ fuel = 0 THEN <<>>
  ELSE IF b \notin DOMAIN m.blocks THEN <<b>>
  ELSE <<b>> \o Walk(m, m.blocks[b][f], f, fuel - 1)

\* The free list of bin i, from its head.
BinList(m, i) == Walk(m, m.bins[i], "next_free", Cardinality(DOMAIN m.blocks) + 1)

\* The physical list, from heap_tail downwards.
PhysList(m) == Walk(m, m.heap_tail, "prev_phys", Cardinality(DOMAIN m.blocks) + 1)

\* How many times address b occurs on the free lists of all bins.
Occurrences(m, b) ==
  Cardinality({<<i, k>> \in (DOMAIN m.bins) \X (1 .. (Cardinality(DOMAIN m.blocks) + 1)) :
                 k <= Len(BinList(m, i)) /\ BinList(m, i)[k] = b})

\* The addresses found on the free lists.
Binned(m) == {BinList(m, i)[k] : <<i, k>> \in
                {<<i, k>> \in (DOMAIN m.bins) \X (1 .. (Cardinality(DOMAIN m.blocks) + 1)) :
                   k <= Len(BinList(m, i))}}

\* One past the last byte of the block at b.
BlockEnd(m, b) == b + BLOCK_HEADER_SIZE + m.blocks[b].size

FreeBlocks(m) == {b \in DOMAIN m.blocks : m.blocks[b].in_use = 0}

(***************************************************************************)
(* C1.  Shrink-on-empty: whenever every pointer my_malloc returned has     *)
(* been released, the program break is back at its value before the first  *)
(* allocation, heap_tail is NULL and every bin is empty; this covers the    *)
(* end of test1 (pc = 20) as well as every order of calls of the arbitrary  *)
(* client.                                                                 *)
(***************************************************************************)
C1_ShrinkOnEmpty ==
  (DOMAIN live = {}) =>
     /\ brk = HeapStart
     /\ heap_tail = NULL
     /\ \A i \in DOMAIN bins : bins[i] = NULL

\* test1 has released all ten of its allocations.
C1_Witness ==
  /\ client = "test1" /\ pc = 20
  /\ DOMAIN live = {}
  /\ last.op = "free" /\ last.arg # NULL

(***************************************************************************)
(* C2.  No overlap of live allocations: every live pointer p belongs to a  *)
(* block that exists and is marked in use, whose payload is at least       *)
(* round_up_size of the size requested, and the payload bytes               *)
(* [p, p + size) are disjoint from header and payload of every other live   *)
(* block, from the call that returned p until its release.                 *)
(***************************************************************************)
C2_NoOverlap ==
  \A p \in DOMAIN live :
    LET b == data_to_block(p)
    IN  /\ b \in DOMAIN blocks
        /\ blocks[b].in_use = 1
        /\ blocks[b].size >= round_up_size(live[p])
        /\ \A q \in (DOMAIN live) \ {p} :
             LET c == data_to_block(q)
             IN  c \in DOMAIN blocks =>
                   \/ p + blocks[b].size <= c
                   \/ BlockEnd(Machine, c) <= p

\* A pointer was just returned from a split while other allocations and a
\* free block lie around it.
C2_Witness ==
  /\ last.op = "malloc" /\ last.ret # NULL
  /\ Cardinality(DOMAIN live) >= 3
  /\ \E q \in DOMAIN live : q > last.ret
  /\ \E q \in DOMAIN live : q < last.ret
  /\ LET b == data_to_block(last.ret)
     IN  /\ blocks[b].next_phys # NULL
         /\ blocks[blocks[b].next_phys].in_use = 0

(***************************************************************************)
(* C3.  Coalescing invariant: after every call, no block B and its         *)
(* physical successor B.next_phys are both free.                           *)
(***************************************************************************)
C3_NoAdjacentFree ==
  \A b \in DOMAIN blocks :
    (blocks[b].in_use = 0 /\ blocks[b].next_phys \in DOMAIN blocks)
       => blocks[blocks[b].next_phys].in_use # 0

\* A release has just merged the released block into its free predecessor,
\* and the merged block has neighbours on both sides.
C3_Witness ==
  /\ last.op = "free" /\ last.arg # NULL
  /\ \E b \in FreeBlocks(Machine) :
       /\ b < data_to_block(last.arg)
       /\ last.arg < BlockEnd(Machine, b)
       /\ blocks[b].prev_phys # NULL
       /\ blocks[b].next_phys # NULL

(***************************************************************************)
(* C4.  Bin membership: after every call, every free block of the physical *)
(* list occurs exactly once on the free lists of all bins together, and    *)
(* whatever is reachable from a bin head is an existing free block (no     *)
(* block in use, no block that was merged away or unmapped).               *)
(***************************************************************************)
C4_BinMembership ==
  /\ \A b \in FreeBlocks(Machine) : Occurrences(Machine, b) = 1
  /\ \A b \in Binned(Machine) : b \in DOMAIN blocks /\ blocks[b].in_use = 0

\* A release has just pushed the released block onto a bin that held a
\* block already, while another bin holds a block as well.
C4_Witness ==
  /\ last.op = "free" /\ last.arg # NULL
  /\ \E i, j \in DOMAIN bins :
       /\ i # j
       /\ bins[i] = data_to_block(last.arg)
       /\ Len(BinList(Machine, i)) >= 2
       /\ bins[j] # NULL

(***************************************************************************)
(* C5.  Bin index correctness: after every call, every block on the free   *)
(* list of bin i has size_to_bin(size) = i, so a small bin i holds only    *)
(* blocks of payload 16 + 8*i and the overflow bin only blocks of payload  *)
(* above 512; and a block's size does not change while it is on a free     *)
(* list: the blocks still on a list when coalesce returns, and those on a  *)
(* list before and after a my_malloc, have the size they had before.       *)
(***************************************************************************)
BinIndexOK(m) ==
  \A i \in DOMAIN m.bins :
    \A k \in 1 .. Len(BinList(m, i)) :
      LET b == BinList(m, i)[k]
      IN  b \in DOMAIN m.blocks =>
            /\ size_to_bin(m.blocks[b].size) = i
            /\ i < OVERFLOW_BIN =>
                 m.blocks[b].size = MINIMUM_ALLOCATION + SIZE_MULTIPLE * i
            /\ i = OVERFLOW_BIN => m.blocks[b].size > BIGGEST_BINNED_SIZE

\* The blocks on a free list in m2 that were on one in m have kept their
\* size.
SizesKept(m, m2) ==
  \A b \in Binned(m) \cap Binned(m2) :
    (b \in DOMAIN m.blocks /\ b \in DOMAIN m2.blocks)
       => m2.blocks[b].size = m.blocks[b].size

C5_BinIndex ==
  /\ BinIndexOK(Machine)
  /\ \A p \in DOMAIN live :
       /\ BinIndexOK(coalesce(Machine, data_to_block(p)).m)
       /\ SizesKept(Machine, coalesce(Machine, data_to_block(p)).m)
  /\ \A n \in ReqSizes : SizesKept(Machine, my_malloc(Machine, n).m)

\* A release has just merged the released block into its free predecessor
\* while a small bin and the overflow bin both hold blocks.
C5_Witness ==
  /\ last.op = "free" /\ last.arg # NULL
  /\ \E b \in FreeBlocks(Machine) :
       b < data_to_block(last.arg) /\ last.arg < BlockEnd(Machine, b)
  /\ bins[OVERFLOW_BIN] # NULL
  /\ \E i \in DOMAIN bins : i < OVERFLOW_BIN /\ bins[i] # NULL

(***************************************************************************)
(* C6.  Physical chain: after every call, prev_phys and next_phys are      *)
(* mutually inverse, exactly one block has prev_phys = NULL when the heap   *)
(* is not empty, every block begins where its predecessor ends, and the    *)
(* walk along prev_phys from heap_tail visits every existing block exactly *)
(* once, at strictly decreasing addresses.                                 *)
(***************************************************************************)
C6_PhysicalChain ==
  /\ \A b \in DOMAIN blocks :
       /\ blocks[b].next_phys # NULL =>
            /\ blocks[b].next_phys \in DOMAIN blocks
            /\ blocks[blocks[b].next_phys].prev_phys = b
       /\ blocks[b].prev_phys # NULL =>
            /\ blocks[b].prev_phys \in DOMAIN blocks
            /\ blocks[blocks[b].prev_phys].next_phys = b
            /\ BlockEnd(Machine, blocks[b].prev_phys) = b
  /\ DOMAIN blocks # {} =>
       Cardinality({b \in DOMAIN blocks : blocks[b].prev_phys = NULL}) = 1
  /\ LET L == PhysList(Machine)
     IN  /\ Len(L) = Cardinality(DOMAIN blocks)
         /\ {L[k] : k \in 1 .. Len(L)} = DOMAIN blocks
         /\ \A k \in 1 .. (Len(L) - 1) : L[k] > L[k + 1]

\* A split has just put a residual between the block it returned and the
\* rest of a heap of five blocks or more.
C6_Witness ==
  /\ last.op = "malloc" /\ last.ret # NULL
  /\ Cardinality(DOMAIN blocks) >= 5
  /\ LET b == data_to_block(last.ret)
     IN  /\ blocks[b].prev_phys # NULL
         /\ blocks[b].next_phys # NULL
         /\ blocks[blocks[b].next_phys].in_use = 0
         /\ blocks[blocks[b].next_phys].next_phys # NULL

(***************************************************************************)
(* C7.  Tail pointer: after every call, heap_tail is NULL exactly when no  *)
(* block exists; otherwise heap_tail is the existing block at the highest  *)
(* address and its next_phys is NULL.                                      *)
(***************************************************************************)
C7_TailPointer ==
  /\ (heap_tail = NULL) <=> (DOMAIN blocks = {})
  /\ heap_tail # NULL =>
       /\ heap_tail \in DOMAIN blocks
       /\ \A b \in DOMAIN blocks : b <= heap_tail
       /\ blocks[heap_tail].next_phys = NULL

\* A release of the tail has just absorbed the free block below it and
\* contracted the heap to that block's address, leaving a new tail.
C7_Witness ==
  /\ last.op = "free" /\ last.arg # NULL
  /\ brk < data_to_block(last.arg)
  /\ heap_tail # NULL

(***************************************************************************)
(* C8.  Size quantum: after every call, the size of every existing block   *)
(* is a multiple of 8 and at least 16.                                     *)
(***************************************************************************)
C8_SizeQuantum ==
  \A b \in DOMAIN blocks :
    /\ blocks[b].size % SIZE_MULTIPLE = 0
    /\ blocks[b].size >= MINIMUM_ALLOCATION

\* A live block larger than was asked for (an overflow block handed over
\* whole) exists next to free blocks in a heap of three blocks or more.
C8_Witness ==
  /\ \E p \in DOMAIN live :
       blocks[data_to_block(p)].size > round_up_size(live[p])
  /\ FreeBlocks(Machine) # {}
  /\ Cardinality(DOMAIN blocks) >= 3

(***************************************************************************)
(* C9.  Quiet no-ops: my_malloc(0) returns NULL and my_free(NULL) returns, *)
(* and both leave heap_tail, every bin head, every header field and free   *)
(* link of every block and the program break as they were.                 *)
(***************************************************************************)
C9_QuietNoOps ==
  [][ /\ (last'.op = "malloc" /\ last'.arg = 0) =>
           (last'.ret = NULL /\ UNCHANGED heap)
      /\ (last'.op = "free" /\ last'.arg = NULL) => UNCHANGED heap ]_vars

\* my_malloc(0) has just returned on a heap that holds blocks in use and
\* free blocks.
C9_Witness ==
  /\ last.op = "malloc" /\ last.arg = 0 /\ last.ret = NULL
  /\ heap_tail # NULL
  /\ \E i \in DOMAIN bins : bins[i] # NULL

(***************************************************************************)
(* C10.  Bin reuse without growth (as stated): on an empty heap, after     *)
(* my_malloc(24) and the release of its pointer, with B1 the break right   *)
(* after that release, a second my_malloc(24) is served from a bin and     *)
(* leaves the break at B1.                                                 *)
(***************************************************************************)
C10_BinReuse_Stated == (scen.step = 3) => brk = scen.B1

(***************************************************************************)
(* C10 as amended: the release contracts the heap, so B1 is the break      *)
(* before the first allocation and no bin holds a block; the second        *)
(* my_malloc(24) grows the heap again and leaves the break at              *)
(* B1 + 24 + BLOCK_HEADER_SIZE, the new block lying at B1.                 *)
(***************************************************************************)
C10_Regrowth ==
  /\ (scen.step = 2) => (scen.B1 = HeapStart /\ EmptyHeap(Machine))
  /\ (scen.step = 3) =>
       /\ brk = scen.B1 + 24 + BLOCK_HEADER_SIZE
       /\ last.ret = block_to_data(scen.B1)
       /\ heap_tail = scen.B1

\* The second my_malloc(24) of the scenario has returned.
C10_Witness == scen.step = 3 /\ last.op = "malloc" /\ last.arg = 24

(***************************************************************************)
(* C11.  Minimum-residual policy (as stated): after a block of 512 bytes   *)
(* has been allocated and released, an immediately following my_malloc(s)  *)
(* with s < 512 and 512 - s below the minimum block size returns that      *)
(* whole block unsplit, leaves bin 62 empty and leaves the program break   *)
(* where it was after the release.                                         *)
(***************************************************************************)
C11_WholeBlock_Stated ==
  (scen6.step = 3) =>
    /\ last.ret = scen6.ptr
    /\ blocks[data_to_block(scen6.ptr)].size = BIGGEST_BINNED_SIZE
    /\ blocks[data_to_block(scen6.ptr)].in_use = 1
    /\ bins[size_to_bin(BIGGEST_BINNED_SIZE)] = NULL
    /\ brk = scen6.B1

(***************************************************************************)
(* C11 as amended: the released block is handed over whole exactly when    *)
(* the release left it on the physical list as a free block of 512 bytes   *)
(* (it was not the tail and had no free neighbour) and the request rounds  *)
(* up to 512; then it is unsplit, off every free list and the break has    *)
(* not moved.  When the request rounds up to less than 512 a block the     *)
(* release left free stays a free block of 512 bytes on the list of bin    *)
(* 62, and the request is served elsewhere.                                *)
(***************************************************************************)
C11_WholeBlockOnExactFit ==
  (scen6.step = 3 /\ scen6.kept) =>
    IF round_up_size(last.arg) = BIGGEST_BINNED_SIZE
    THEN /\ last.ret = scen6.ptr
         /\ blocks[data_to_block(scen6.ptr)].size = BIGGEST_BINNED_SIZE
         /\ blocks[data_to_block(scen6.ptr)].in_use = 1
         /\ data_to_block(scen6.ptr) \notin Binned(Machine)
         /\ Cardinality(DOMAIN blocks) = scen6.nblocks
         /\ brk = scen6.B1
    ELSE /\ last.ret # scen6.ptr
         /\ FreeBiggest(Machine, scen6.ptr)
         /\ \E k \in 1 .. Len(BinList(Machine, size_to_bin(BIGGEST_BINNED_SIZE))) :
              BinList(Machine, size_to_bin(BIGGEST_BINNED_SIZE))[k]
                = data_to_block(scen6.ptr)

\* The third call of the scenario has returned for a request that rounds
\* up to less than 512 bytes, after a release that left the block free.
C11_Witness ==
  /\ scen6.step = 3 /\ scen6.kept
  /\ last.op = "malloc" /\ round_up_size(last.arg) < BIGGEST_BINNED_SIZE

\* The same for a request that rounds up to 512 bytes.
C11_WitnessExact ==
  /\ scen6.step = 3 /\ scen6.kept
  /\ last.op = "malloc" /\ round_up_size(last.arg) = BIGGEST_BINNED_SIZE

(***************************************************************************)
(* round_up_size over the whole range of unsigned int, and my_malloc on    *)
(* an empty heap for every such request: the request n is drawn at the     *)
(* start and kept in last.arg.                                             *)
(***************************************************************************)
InitRound ==
  /\ blocks = <<>>
  /\ bins = [i \in 0 .. (NUM_BINS - 1) |-> NULL]
  /\ heap_tail = NULL
  /\ brk = HeapStart
  /\ live = <<>>
  /\ \E n \in 1 .. UINT_MOD - 1 : last = [op |-> "none", arg |-> n, ret |-> NULL]
  /\ scen = NoScenario
  /\ scen6 = NoScenario6
  /\ client = "round"
  /\ profile = 0
  /\ pc = 0
  /\ ptrs = [i \in 1 .. 10 |-> NULL]

\* round_up_size(n) is evaluated.
RoundUp ==
  /\ client = "round"
  /\ last.op = "none"
  /\ last' = [op |-> "round_up_size", arg |-> last.arg, ret |-> round_up_size(last.arg)]
  /\ UNCHANGED <<heap, live, scen, scen6, client, profile, pc, ptrs>>

\* my_malloc(n) is called on the empty heap.
MallocAny ==
  /\ client = "round"
  /\ last.op = "round_up_size"
  /\ LET r == my_malloc(Machine, last.arg)
     IN  /\ Install(r.m)
         /\ live' = Add(live, r.ret, last.arg)
         /\ last' = [op |-> "malloc", arg |-> last.arg, ret |-> r.ret]
  /\ UNCHANGED <<scen, scen6, client, profile, pc, ptrs>>

NextRound ==
  \/ RoundUp
  \/ MallocAny

SpecRound == InitRound /\ [][NextRound]_vars

(***************************************************************************)
(* C12.  Rounding over the whole unsigned domain (as stated): for every    *)
(* request n with 0 < n < 2^w, round_up_size(n) is 16 when n <= 16 and     *)
(* otherwise the smallest multiple of 8 that is >= n; it is never 0 and    *)
(* never below n, and my_malloc(n) returns a block whose payload is at     *)
(* least n bytes.                                                          *)
(***************************************************************************)
C12_RoundUp_Stated ==
  /\ (last.op = "round_up_size" /\ last.arg > 0) =>
       /\ last.arg <= MINIMUM_ALLOCATION => last.ret = MINIMUM_ALLOCATION
       /\ last.arg > MINIMUM_ALLOCATION =>
            /\ last.ret % SIZE_MULTIPLE = 0
            /\ last.ret >= last.arg
            /\ last.ret - last.arg < SIZE_MULTIPLE
       /\ last.ret >= last.arg
       /\ last.ret # 0
  /\ (client = "round" /\ last.op = "malloc") =>
       /\ last.ret # NULL
       /\ blocks[data_to_block(last.ret)].in_use = 1
       /\ blocks[data_to_block(last.ret)].size >= last.arg

(***************************************************************************)
(* C13.  Growth only as a last resort: my_malloc(n), n > 0, with           *)
(* s = round_up_size(n), raises the program break if and only if the bin   *)
(* of s is the overflow bin or empty, every small bin from                 *)
(* size_to_bin(s + MINIMUM_BLOCK_SIZE) upwards is empty and the overflow   *)
(* bin holds no block of size >= s.  When it grows, the break rises by     *)
(* exactly s + header, the new block sits at the old break with size s     *)
(* and in_use = 1 and is the new heap_tail; in every other case the break  *)
(* stays where it was.                                                     *)
(***************************************************************************)
NoFit(m, s) ==
  /\ size_to_bin(s) = OVERFLOW_BIN \/ m.bins[size_to_bin(s)] = NULL
  /\ \A i \in DOMAIN m.bins :
       (size_to_bin(s + MINIMUM_BLOCK_SIZE) <= i /\ i < OVERFLOW_BIN)
         => m.bins[i] = NULL
  /\ \A k \in 1 .. Len(BinList(m, OVERFLOW_BIN)) :
       m.blocks[BinList(m, OVERFLOW_BIN)[k]].size < s

C13_GrowthLastResort ==
  [][ (last'.op = "malloc" /\ last'.arg > 0) =>
        IF NoFit(Machine, round_up_size(last'.arg))
        THEN /\ brk' = brk + round_up_size(last'.arg) + BLOCK_HEADER_SIZE
             /\ brk \notin DOMAIN blocks
             /\ brk \in DOMAIN blocks'
             /\ blocks'[brk].size = round_up_size(last'.arg)
             /\ blocks'[brk].in_use = 1
             /\ heap_tail' = brk
             /\ last'.ret = block_to_data(brk)
        ELSE brk' = brk ]_vars

\* my_malloc has just grown the heap although free blocks are at hand: the
\* returned block is the tail, and the overflow bin and a small bin hold
\* blocks that did not fit.
C13_Witness ==
  /\ last.op = "malloc" /\ last.ret # NULL
  /\ heap_tail = data_to_block(last.ret)
  /\ \/ bins[OVERFLOW_BIN] # NULL
     \/ \E i \in DOMAIN bins : bins[i] # NULL /\ i > size_to_bin(round_up_size(last.arg))

(***************************************************************************)
(* C14.  The small-bin split search is exact: for every small-class size   *)
(* s whose own bin is empty, no small bin below the start index            *)
(* size_to_bin(s + MINIMUM_BLOCK_SIZE) holds a block that could legally    *)
(* be split for s, every non-empty small bin from the start index upwards  *)
(* passes the split test of line 376 (the skip never fires), and the block *)
(* the search of lines 370-383 settles on is the head of the lowest small  *)
(* bin holding a block whose payload minus s is at least the minimum block *)
(* size (none when there is no such bin).  With every small bin empty      *)
(* there is nothing to search.                                             *)
(***************************************************************************)
SmallSizes == {MINIMUM_ALLOCATION + SIZE_MULTIPLE * i : i \in 0 .. (OVERFLOW_BIN - 1)}

\* The small bins that are not empty.
NonEmptySmall(m) == {i \in 0 .. (OVERFLOW_BIN - 1) : m.bins[i] # NULL}

\* Those of the bins ne that hold a block that can legally be split for s.
LegalBins(m, ne, s) ==
  {i \in ne : \E k \in 1 .. Len(BinList(m, i)) :
                m.blocks[BinList(m, i)[k]].size - s >= MINIMUM_BLOCK_SIZE}

C14_ExactSplitSearch ==
  \A m \in {Machine} :
    \A ne \in {NonEmptySmall(m)} :
      \A s \in SmallSizes :
        (ne # {} /\ m.bins[size_to_bin(s)] = NULL) =>
          \A legal \in {LegalBins(m, ne, s)} :
            /\ \A i \in legal : i >= ScanStart(s)
            /\ \A i \in ne :
                 i >= ScanStart(s) =>
                   ToUInt(m.blocks[m.bins[i]].size - s) >= MINIMUM_BLOCK_SIZE
            /\ SmallBinScan(m, s, ScanStart(s)) =
                 IF legal = {} THEN NULL
                 ELSE m.bins[CHOOSE i \in legal : \A j \in legal : i <= j]

\* my_malloc has just split a small block (the block after the returned
\* one is the free residual, in a small bin), and at least two small bins
\* of different sizes are non-empty.
C14_Witness ==
  /\ last.op = "malloc" /\ last.ret # NULL
  /\ blocks[data_to_block(last.ret)].next_phys # NULL
  /\ blocks[blocks[data_to_block(last.ret)].next_phys].in_use = 0
  /\ blocks[blocks[data_to_block(last.ret)].next_phys].size <= BIGGEST_BINNED_SIZE
  /\ Cardinality({i \in 0 .. (OVERFLOW_BIN - 1) : bins[i] # NULL}) >= 2

(***************************************************************************)
(* C15.  Free lists are well-formed doubly linked lists: after every       *)
(* public operation the list of every bin, followed from the head through  *)
(* next_free, is finite and acyclic and made of existing blocks, the head  *)
(* has prev_free = NULL, and every member B with next_free = N # NULL has  *)
(* N.prev_free = B.  Hence a member has prev_free = NULL only if it is the *)
(* head and both links NULL only if it is the sole member, and the first   *)
(* fit walk over the overflow bin ends.                                    *)
(***************************************************************************)
WellFormedList(m, i) ==
  LET list == BinList(m, i)
  IN  /\ Len(list) <= Cardinality(DOMAIN m.blocks)
      /\ \A k \in 1 .. Len(list) : list[k] \in DOMAIN m.blocks
      /\ \A k, l \in 1 .. Len(list) : list[k] = list[l] => k = l
      /\ \A k \in 1 .. Len(list) :
           /\ m.blocks[list[k]].prev_free = (IF k = 1 THEN NULL ELSE list[k - 1])
           /\ m.blocks[list[k]].next_free # NULL =>
                m.blocks[m.blocks[list[k]].next_free].prev_free = list[k]
           /\ m.blocks[list[k]].prev_free = NULL => k = 1
           /\ (m.blocks[list[k]].prev_free = NULL /\ m.blocks[list[k]].next_free = NULL)
                => Len(list) = 1

C15_WellFormedFreeLists == \A i \in DOMAIN bins : WellFormedList(Machine, i)

\* my_malloc has returned a block and left a free list of three blocks or
\* more.
C15_Witness ==
  /\ last.op = "malloc" /\ last.ret # NULL
  /\ \E i \in DOMAIN bins : Len(BinList(Machine, i)) >= 3

(***************************************************************************)
(* C16.  The tail is never free: after every public operation heap_tail is *)
(* NULL or heap_tail.in_use = 1.  Hence no block on any free list has      *)
(* next_phys = NULL, so split_block, which is only given blocks taken from *)
(* a free list, never reaches its heap_tail update of line 336 and a split *)
(* residual never is the tail; and once my_free has contracted the heap    *)
(* the new tail, when there is one, is a block in use.                     *)
(***************************************************************************)
TailInUse ==
  /\ heap_tail = NULL \/ blocks[heap_tail].in_use = 1
  /\ \A b \in Binned(Machine) : blocks[b].next_phys # NULL
  /\ \A b \in FreeBlocks(Machine) :
       /\ b # heap_tail
       /\ blocks[b].next_phys # NULL
       /\ blocks[blocks[b].next_phys].in_use = 1

C16_TailNeverFree ==
  /\ []TailInUse
  /\ [][ /\ (last'.op = "malloc" /\ brk' = brk) => heap_tail' = heap_tail
         /\ (last'.op = "free" /\ brk' < brk) =>
              (heap_tail' = NULL \/ blocks'[heap_tail'].in_use = 1) ]_vars

\* my_free has just contracted the heap (the released block lay at the
\* break that is now lower) and left blocks behind, free ones among them.
C16_Witness ==
  /\ last.op = "free" /\ last.arg # NULL
  /\ data_to_block(last.arg) >= brk
  /\ heap_tail # NULL
  /\ FreeBlocks(Machine) # {}

(***************************************************************************)
(* C17.  Live blocks are untouched by other calls: a my_malloc(n) call,    *)
(* and a my_free(p) call for a live pointer p, leave every other block     *)
(* that is in use at its address, with its size and with in_use = 1.       *)
(* Every live pointer therefore names an existing in-use block all the way *)
(* from the my_malloc that returned it to its release, of a size that      *)
(* never changes.                                                          *)
(***************************************************************************)
LiveInUse ==
  \A p \in DOMAIN live :
    /\ data_to_block(p) \in DOMAIN blocks
    /\ blocks[data_to_block(p)].in_use = 1

C17_LiveBlocksUntouched ==
  /\ []LiveInUse
  /\ [][ (last'.op \in {"malloc", "free"}) =>
           \A b \in DOMAIN blocks :
             (blocks[b].in_use = 1 /\ ~(last'.op = "free" /\ b = data_to_block(last'.arg)))
               => /\ b \in DOMAIN blocks'
                  /\ blocks'[b].size = blocks[b].size
                  /\ blocks'[b].in_use = 1
                  /\ last'.op = "malloc" => last'.ret # block_to_data(b) ]_vars

\* A public call that merged or split blocks has returned while three or
\* more pointers are live: the heap holds free blocks next to them.
C17_Witness ==
  /\ last.op \in {"malloc", "free"}
  /\ Cardinality(DOMAIN live) >= 3
  /\ FreeBlocks(Machine) # {}
  /\ \E p \in DOMAIN live : blocks[data_to_block(p)].next_phys \in FreeBlocks(Machine)
  /\ \E p \in DOMAIN live : blocks[data_to_block(p)].prev_phys \in FreeBlocks(Machine)

(***************************************************************************)
(* C18.  The break tracks the tail: after every public operation the       *)
(* program break is address(heap_tail) + header + heap_tail.size when the  *)
(* heap holds blocks and the initial break when heap_tail = NULL.  The     *)
(* lowest block sits at the initial break, every block ends where the next *)
(* one begins or, for the tail, at the break, and no two blocks overlap:   *)
(* the blocks tile [initial break, break).                                 *)
(***************************************************************************)
C18_BreakTracksTail ==
  /\ heap_tail = NULL => (brk = HeapStart /\ DOMAIN blocks = {})
  /\ heap_tail # NULL =>
       /\ heap_tail \in DOMAIN blocks
       /\ brk = BlockEnd(Machine, heap_tail)
       /\ HeapStart \in DOMAIN blocks
  /\ \A b \in DOMAIN blocks :
       /\ HeapStart <= b
       /\ BlockEnd(Machine, b) <= brk
       /\ IF b = heap_tail THEN BlockEnd(Machine, b) = brk
          ELSE BlockEnd(Machine, b) \in DOMAIN blocks
       /\ \A c \in DOMAIN blocks : b < c => BlockEnd(Machine, b) <= c

\* my_free has just given back the tail together with the free block
\* before it (the released block lay above the break that is left), and
\* three blocks or more remain.
C18_Witness ==
  /\ last.op = "free" /\ last.arg # NULL
  /\ data_to_block(last.arg) > brk
  /\ Cardinality(DOMAIN blocks) >= 3

(***************************************************************************)
(* C19.  Post-condition of coalesce (as stated): for every call of         *)
(* coalesce that my_free makes, in all four rows of the case matrix, the   *)
(* block coalesce returns has in_use = 0 when coalesce returns.            *)
(***************************************************************************)
C19_ReturnedFree_Stated ==
  [][ (last'.op = "free" /\ last'.arg # NULL) =>
        LET c == coalesce(Machine, data_to_block(last'.arg))
        IN  c.m.blocks[c.ret].in_use = 0 ]_vars

\* Block b has a free physical neighbour in m.
FreeNeighbour(m, b) ==
  \/ /\ m.blocks[b].prev_phys # NULL
     /\ m.blocks[m.blocks[b].prev_phys].in_use = 0
  \/ /\ m.blocks[b].next_phys # NULL
     /\ m.blocks[m.blocks[b].next_phys].in_use = 0

(***************************************************************************)
(* C19 as amended: the block coalesce returns has in_use = 0 in the three  *)
(* rows that merge.  In the no-merge row coalesce changes nothing and      *)
(* returns the block it was given with in_use = 1; my_free itself then     *)
(* marks it free (line 440) before it goes into a bin, or gives it back    *)
(* to the system when it is the tail.                                      *)
(***************************************************************************)
C19_ReturnedFreeOnMerge ==
  [][ (last'.op = "free" /\ last'.arg # NULL) =>
        LET b == data_to_block(last'.arg)
            c == coalesce(Machine, b)
        IN  IF FreeNeighbour(Machine, b)
            THEN /\ c.ret \in DOMAIN c.m.blocks
                 /\ c.m.blocks[c.ret].in_use = 0
                 /\ c.m.blocks[c.ret].size > blocks[b].size
            ELSE /\ c.ret = b
                 /\ c.m = Machine
                 /\ c.m.blocks[c.ret].in_use = 1
                 /\ IF blocks[b].next_phys = NULL
                    THEN b \notin DOMAIN blocks'
                    ELSE /\ blocks'[b].in_use = 0
                         /\ bins'[size_to_bin(blocks'[b].size)] = b ]_vars

\* my_free has just released a block without a free neighbour (it is free
\* now, with the size that was asked for, between blocks in use) while
\* another free block, product of a merge, is larger than any request.
C19_Witness ==
  /\ last.op = "free" /\ last.arg # NULL
  /\ data_to_block(last.arg) \in FreeBlocks(Machine)
  /\ ~FreeNeighbour(Machine, data_to_block(last.arg))
  /\ blocks[data_to_block(last.arg)].prev_phys # NULL
  /\ Cardinality(FreeBlocks(Machine)) >= 2

(***************************************************************************)
(* C20.  Double removal is harmless: whenever my_malloc takes the small    *)
(* bin split path, the block chosen is the head of its bin, and the second *)
(* remove_block (line 315, inside split_block) leaves every bin head and   *)
(* every header field and free link exactly as the first one (line 380)    *)
(* left them.  After it the free list of the chosen block's bin is what it *)
(* was without its head, every other free list is what it was and only the *)
(* new head has had a link rewritten, so no other free block is dropped    *)
(* from or duplicated in a bin.                                            *)
(***************************************************************************)
\* The block the split search of my_malloc(n) chooses in m (NULL when the
\* call does not take the split path).
SplitChoice(m, n) ==
  IF /\ n > 0
     /\ size_to_bin(round_up_size(n)) < OVERFLOW_BIN
     /\ m.bins[size_to_bin(round_up_size(n))] = NULL
  THEN SmallBinScan(m, round_up_size(n), ScanStart(round_up_size(n)))
  ELSE NULL

C20_DoubleRemoval ==
  [][ (last'.op = "malloc") =>
        \A b \in {SplitChoice(Machine, last'.arg)} \ {NULL} :
          \A once \in {remove_block(Machine, b)} :
            \A twice \in {remove_block(once, b)} :
              /\ bins[size_to_bin(blocks[b].size)] = b
              /\ twice = once
              /\ \A i \in DOMAIN bins :
                   BinList(twice, i) = IF i = size_to_bin(blocks[b].size)
                                       THEN Tail(BinList(Machine, i))
                                       ELSE BinList(Machine, i)
              /\ \A f \in DOMAIN blocks :
                   f # blocks[b].next_free => twice.blocks[f] = blocks[f]
              /\ last'.ret = block_to_data(b) ]_vars

\* my_malloc has just split the head of a bin that held further blocks:
\* the returned block is followed by its free residual, and the bin of the
\* size the two had together is still non-empty.
C20_Witness ==
  /\ last.op = "malloc" /\ last.ret # NULL
  /\ blocks[data_to_block(last.ret)].next_phys # NULL
  /\ LET a == data_to_block(last.ret)
         r == blocks[a].next_phys
     IN  /\ blocks[r].in_use = 0
         /\ bins[size_to_bin(blocks[r].size)] = r
         /\ blocks[a].size + BLOCK_HEADER_SIZE + blocks[r].size <= BIGGEST_BINNED_SIZE
         /\ bins[size_to_bin(blocks[a].size + BLOCK_HEADER_SIZE + blocks[r].size)] # NULL

====
